---- MODULE Spec2Model ----
(***************************************************************************)
(* PyreRing: the suite resolver (lib/scanscripts.py), the directive parser *)
(* (lib/pyreringutil.py) and the suite execution engine                    *)
(* (lib/baserunner.py) as one state machine.                               *)
(*                                                                         *)
(* Paths are the names below the source directory; os.path.join with the   *)
(* source directory and normpath are left out, so a name is its own full   *)
(* path.                                                                   *)
(***************************************************************************)
EXTENDS Integers, Sequences, FiniteSets, TLC

VARIABLES
  fs,                            \* the file system under source_dir
  fatal_strings,                 \* global_settings['FATAL_STRING'].split(',')
  skip_setup,                    \* global_settings['skip_setup']
  including_suite_visited,       \* ScanScripts fields
  including_suite_visited_set,
  excluding_suite_visited,
  excluding_suite_visited_set,
  excluding_suite_visisted_set,  \* the attribute BaseScan assigns (sic)
  scan_name,                     \* argument of the BaseScan call in progress
  scan_stack,                    \* the _ReadSuiteFiles activation records
  scan_result,                   \* what the last BaseScan call returned or raised
  scan_log,                      \* completed BaseScan calls: name and outcome
  suite_list, email_flag,        \* arguments of BaseRunner.Run
  pc, phase, name_idx,           \* position of Run / _Run / _RunSuites
  scripts, script_idx,           \* _RunSingleSuite: the scanned list, the loop index
  suite_fail_flag,
  passed, failed, timeout, error, notrun,   \* BaseRunner counters
  reporter,                      \* the reporter's calls and _SummaryToLog, in order
  exec_log,                      \* scripts handed to _CommandStreamer, in order
  last_run,                      \* what the last script did and got
  cwd,                           \* the process working directory
  mail_sent,                     \* number of email_message.Send() calls
  run_result,                    \* how Run ended: value returned or exception
  command, time_out,             \* arguments of RunCommandToLoggerWithTimeout
  proc_pc,                       \* its position
  start_time, output,            \* its locals
  pipe,                          \* proc.stdout: what is written and not yet read
  alive,                         \* the processes of the command that are running
  returncode,                    \* the status proc.poll() gives, None while running
  written,                       \* the chunks the command has written
  stepped,                       \* the command has moved in the current second
  proc_result                    \* what RunCommandToLoggerWithTimeout gave

scanVars == <<including_suite_visited, including_suite_visited_set,
              excluding_suite_visited, excluding_suite_visited_set,
              excluding_suite_visisted_set, scan_name, scan_stack, scan_result,
              scan_log>>
envVars == <<fs, fatal_strings, skip_setup, suite_list, email_flag>>
countVars == <<passed, failed, timeout, error, notrun>>
runVars == <<pc, phase, name_idx, scripts, script_idx, suite_fail_flag,
             passed, failed, timeout, error, notrun, reporter, exec_log,
             last_run, cwd, mail_sent, run_result>>
procVars == <<command, time_out, proc_pc, start_time, output, pipe, alive, returncode,
              written, stepped, proc_result>>
vars == <<fs, fatal_strings, skip_setup, suite_list, email_flag,
          including_suite_visited, including_suite_visited_set,
          excluding_suite_visited, excluding_suite_visited_set,
          excluding_suite_visisted_set, scan_name, scan_stack, scan_result,
          scan_log, pc, phase, name_idx, scripts, script_idx, suite_fail_flag,
          passed, failed, timeout, error, notrun, reporter, exec_log,
          last_run, cwd, mail_sent, run_result,
          command, time_out, proc_pc, start_time, output, pipe, alive, returncode,
          written, stepped, proc_result>>

(***************************************************************************)
(* Constants of the program.                                               *)
(***************************************************************************)
PASS == "PASS"
FAIL == "FAIL"
TIMEOUT == "TIMEOUT"
NOTRUN == "NOT_RUN"
ERROR == "ERROR"

SETUP_SUITE == <<"SETUP.sh", "SETUP.py", "SETUP.par", "SETUP.suite">>
\* The names of setup and of teardown in one set.
SetupAndTeardownSet ==
  {"SETUP.sh", "SETUP.py", "SETUP.par", "SETUP.suite",
   "TEARDOWN.sh", "TEARDOWN.py", "TEARDOWN.par", "TEARDOWN.suite"}
SETUP_SUITE_SET == {SETUP_SUITE[i] : i \in 1..Len(SETUP_SUITE)}
TEARDOWN_SUITE == <<"TEARDOWN.sh", "TEARDOWN.py", "TEARDOWN.par", "TEARDOWN.suite">>
TEARDOWN_SUITE_SET == {TEARDOWN_SUITE[i] : i \in 1..Len(TEARDOWN_SUITE)}

SUITE_SUFFIXES == {".suite"}
SCRIPT_SUFFIXES == {".sh", ".py", ".par", ".pl"}
BINARY_SUFFIXES == {".par"}

\* Python's None as a script result: no exit status is this number.
None == 0 - 9999

(***************************************************************************)
(* The names the model knows, and os.path.splitext(name)[1] of each.       *)
(***************************************************************************)
ShNames == {"SETUP.sh", "TEARDOWN.sh", "t1.sh", "t2.sh", "s1.sh", "s2.sh",
            "dir1/t3.sh"}
PyNames == {"SETUP.py", "TEARDOWN.py"}
ParNames == {"SETUP.par", "TEARDOWN.par"}
SuiteNames == {"SETUP.suite", "TEARDOWN.suite", "a.suite", "b.suite", "c.suite",
               "x.suite", "bad.suite"}
TxtNames == {"notes.txt"}
DirNames == {"dir1"}
NoSuffixNames == {"nowhere"}

splitext(p) ==
  CASE p \in ShNames -> ".sh"
    [] p \in PyNames -> ".py"
    [] p \in ParNames -> ".par"
    [] p \in SuiteNames -> ".suite"
    [] p \in TxtNames -> ".txt"
    [] OTHER -> ""

\* os.path.split(cmd.split()[0])[0] of a script's full path.
SourceDir == "/source"
ScriptDir(cmd) == IF cmd \in {"dir1/t3.sh"} THEN "/source/dir1" ELSE SourceDir

(***************************************************************************)
(* The file system: fs.files are the regular files, fs.dirs the scripts    *)
(* below each directory, fs.lines the directive lines of each suite file   *)
(* (a line is its '-' prefix and the path it names), fs.config the         *)
(* PR_START/PR_END block of each file.                                     *)
(***************************************************************************)
CheckDir(path) == path \in DOMAIN fs.dirs
CheckFile(path) == path \in fs.files
Glob(pattern) == IF pattern \in fs.files THEN {pattern} ELSE {}
Walk(path) == fs.dirs[path]

\* All orders in which a set can be listed: list(a_set), os.walk.
RECURSIVE Orders(_)
Orders(S) ==
  IF S = {} THEN {<<>>}
  ELSE UNION {{<<x>> \o rest : rest \in Orders(S \ {x})} : x \in S}

Range(s) == {s[i] : i \in 1..Len(s)}

(***************************************************************************)
(* PRConfigParser.  A configuration is a function from keys to values; the *)
(* keys that only pass through the engine (ROOT_ACCESS, CONCURRENT, NFS,   *)
(* VERSION, SIZE, COMMENTS, FLAGS) are left out.  A block is               *)
(* [bad, kv]: bad when ParseList or _ParseLine raises ValueError on it.    *)
(***************************************************************************)
DefaultTimeout == 600
DefaultExpectedReturn == 0
DefaultError == 255

Default ==
  [k \in {"TEST_SCRIPT", "TIMEOUT", "EXPECTED_RETURN", "ERROR"} |->
     CASE k = "TEST_SCRIPT" -> ""
       [] k = "TIMEOUT" -> DefaultTimeout
       [] k = "EXPECTED_RETURN" -> DefaultExpectedReturn
       [] k = "ERROR" -> DefaultError]

NoBlock == [bad |-> FALSE, kv |-> <<>>]
Block(path) == IF path \in DOMAIN fs.config THEN fs.config[path] ELSE NoBlock

\* dict.update: the keys of new win.
Update(old, new) == new @@ old

ParseList(block, populate_default) ==
  IF populate_default THEN Update(Default, block.kv) ELSE block.kv

\* [ok, configs]: ok is FALSE when ValueError is raised.
ParseFile(anyfile, populate_default) ==
  IF splitext(anyfile) \in BINARY_SUFFIXES
    THEN [ok |-> TRUE, configs |-> Update(Default, [k \in {"TEST_SCRIPT"} |-> anyfile])]
    ELSE IF Block(anyfile).bad
      THEN [ok |-> FALSE, configs |-> <<>>]
      ELSE [ok |-> TRUE,
            configs |-> Update(ParseList(Block(anyfile), populate_default),
                               [k \in {"TEST_SCRIPT"} |-> anyfile])]

\* [ok, list]
ParseFiles(files, populate_default) ==
  IF \E i \in 1..Len(files) : ~ParseFile(files[i], populate_default).ok
    THEN [ok |-> FALSE, list |-> <<>>]
    ELSE [ok |-> TRUE,
          list |-> [i \in 1..Len(files) |-> ParseFile(files[i], populate_default).configs]]

\* A pop that leaves the key in.
PopNothing(config, key) == config

\* dict.pop(key)
Pop(config, key) == [k \in DOMAIN config \ {key} |-> config[k]]

ParseSuite(suite_file, files, populate_default) ==
  LET suite == ParseFile(suite_file, FALSE)
      suite_config == Pop(suite.configs, "TEST_SCRIPT")
      config_list == ParseFiles(files, populate_default)
  IN IF ~suite.ok \/ ~config_list.ok
       THEN [ok |-> FALSE, list |-> <<>>]
       ELSE [ok |-> TRUE,
             list |-> [i \in 1..Len(files) |-> Update(config_list.list[i], suite_config)]]

(***************************************************************************)
(* ScanScripts.  An outcome of BaseScan is [kind, list, why]: kind "list"  *)
(* with the run configurations, or the class of the exception raised, with *)
(* why it was raised.                                                      *)
(***************************************************************************)
Pending == [kind |-> "pending", list |-> <<>>, why |-> ""]
Returned(config_list) == [kind |-> "list", list |-> config_list, why |-> ""]
Raised(class, why) == [kind |-> class, list |-> <<>>, why |-> why]

\* The class alone, had the other errors not been made subclasses of it.
ScanScriptsErrorAlone == {"ScanScriptsError"}

\* Subclasses of ScanScriptsError, the class itself included.
ScanScriptsErrors == {"ScanScriptsError", "TestNotFoundError", "TestNotSupportedError",
                      "LoopConditionError"}

\* _ParseOneLine: [ok, testcase_set, suite_set]; ok is FALSE when it raises
\* ScanScriptsError.
ParseOneLine(one_line) ==
  LET suffix == splitext(one_line) IN
  IF CheckDir(one_line)
    THEN [ok |-> TRUE, testcase_set |-> Walk(one_line), suite_set |-> {}]
  ELSE IF suffix \in SCRIPT_SUFFIXES
    THEN [ok |-> TRUE, testcase_set |-> Glob(one_line), suite_set |-> {}]
  ELSE IF suffix \in SUITE_SUFFIXES
    THEN [ok |-> TRUE, testcase_set |-> {}, suite_set |-> Glob(one_line)]
  ELSE [ok |-> FALSE, testcase_set |-> {}, suite_set |-> {}]

\* _ReadOneSuiteFile: the four sets of one suite file; ok is FALSE when a line
\* of it makes _ParseOneLine raise.
ReadOneSuiteFile(full_path) ==
  LET lines == fs.lines[full_path]
      inc == {l \in lines : ~l.exclude}
      exc == {l \in lines : l.exclude}
  IN [ok |-> \A l \in lines : ParseOneLine(l.path).ok,
      include_testcase_set |-> UNION {ParseOneLine(l.path).testcase_set : l \in inc},
      include_suite_set |-> UNION {ParseOneLine(l.path).suite_set : l \in inc},
      exclude_testcase_set |-> UNION {ParseOneLine(l.path).testcase_set : l \in exc},
      exclude_suite_set |-> UNION {ParseOneLine(l.path).suite_set : l \in exc}]

\* A _ReadSuiteFiles that forgets the suites its file excludes.
FrameExcludesForgotten(full_path) ==
  LET r == ReadOneSuiteFile(full_path) IN
  [full_path |-> full_path,
   include_testcase_set |-> r.include_testcase_set \ r.exclude_testcase_set,
   include_suite_set |-> r.include_suite_set \ r.exclude_suite_set,
   exclude_suite_set |-> {},
   waiting |-> "none"]

\* The activation record of _ReadSuiteFiles(full_path) when its loops start:
\* the excluded cases and suites are already taken out of the include sets.
\* waiting names the loop whose recursive call is in progress.
Frame(full_path) ==
  LET r == ReadOneSuiteFile(full_path) IN
  [full_path |-> full_path,
   include_testcase_set |-> r.include_testcase_set \ r.exclude_testcase_set,
   include_suite_set |-> r.include_suite_set \ r.exclude_suite_set,
   exclude_suite_set |-> r.exclude_suite_set,
   waiting |-> "none"]

\* An exception leaves every activation of _ReadSuiteFiles and BaseScan.
ScanRaise(name, class, why) ==
  /\ scan_stack' = <<>>
  /\ scan_result' = Raised(class, why)
  /\ scan_log' = Append(scan_log, [name |-> name, outcome |-> Raised(class, why)])

\* BaseScan returns parser.ParseFiles / parser.ParseSuite of the files found;
\* a ValueError of the parser leaves BaseScan as it is.
ScanReturn(name, parsed) ==
  /\ scan_stack' = <<>>
  /\ IF parsed.ok
       THEN /\ scan_result' = Returned(parsed.list)
            /\ scan_log' = Append(scan_log, [name |-> name,
                                             outcome |-> Returned(parsed.list)])
       ELSE /\ scan_result' = Raised("ValueError", "directive")
            /\ scan_log' = Append(scan_log, [name |-> name,
                                             outcome |-> Raised("ValueError", "directive")])

\* A membership test that never finds a suite visited.
IncludeNeverVisited(one_suite) == FALSE

\* The membership test of the include loop of _ReadSuiteFiles.
IncludeVisited(one_suite) == one_suite \in including_suite_visited_set
\* A membership test of the exclude loop that never finds a suite visited.
ExcludeNeverVisited(one_suite) == FALSE

\* The membership test of the exclude loop of _ReadSuiteFiles.
ExcludeVisited(one_suite) == one_suite \in excluding_suite_visited_set

\* BaseScan(suite_name) up to the first recursive call of _ReadSuiteFiles.
BaseScan(suite_name) ==
  /\ scan_name' = suite_name
  /\ IF CheckDir(suite_name)
       THEN /\ \E order \in Orders(Walk(suite_name)) : ScanReturn(suite_name, ParseFiles(order, TRUE))
            /\ UNCHANGED <<including_suite_visited, including_suite_visited_set,
                           excluding_suite_visited, excluding_suite_visited_set,
                           excluding_suite_visisted_set>>
     ELSE IF CheckFile(suite_name) /\ splitext(suite_name) \in SCRIPT_SUFFIXES
       THEN /\ ScanReturn(suite_name, ParseFiles(<<suite_name>>, TRUE))
            /\ UNCHANGED <<including_suite_visited, including_suite_visited_set,
                           excluding_suite_visited, excluding_suite_visited_set,
                           excluding_suite_visisted_set>>
     ELSE IF CheckFile(suite_name) /\ splitext(suite_name) \in SUITE_SUFFIXES
       THEN /\ including_suite_visited' = <<suite_name>>
            /\ including_suite_visited_set' = including_suite_visited_set \cup {suite_name}
            /\ excluding_suite_visited' = <<>>
            /\ excluding_suite_visisted_set' = {}
            /\ UNCHANGED excluding_suite_visited_set
            /\ IF ReadOneSuiteFile(suite_name).ok
                 THEN /\ scan_stack' = <<Frame(suite_name)>>
                      /\ scan_result' = Pending
                      /\ UNCHANGED scan_log
                 ELSE ScanRaise(suite_name, "ScanScriptsError", "invalid line")
     ELSE IF CheckFile(suite_name)
       THEN /\ ScanRaise(suite_name, "TestNotSupportedError", "extension")
            /\ UNCHANGED <<including_suite_visited, including_suite_visited_set,
                           excluding_suite_visited, excluding_suite_visited_set,
                           excluding_suite_visisted_set>>
     ELSE /\ ScanRaise(suite_name, "TestNotFoundError", "wrong suite name")
          /\ UNCHANGED <<including_suite_visited, including_suite_visited_set,
                         excluding_suite_visited, excluding_suite_visited_set,
                         excluding_suite_visisted_set>>

Top == scan_stack[Len(scan_stack)]
Below == SubSeq(scan_stack, 1, Len(scan_stack) - 1)

\* One pass of the include loop of _ReadSuiteFiles, up to its recursive call.
ScanInclude ==
  /\ scan_stack # <<>>
  /\ UNCHANGED <<envVars, procVars, runVars>>
  /\ Top.waiting = "none"
  /\ Top.include_suite_set # {}
  /\ \E one_suite \in Top.include_suite_set :
       IF IncludeVisited(one_suite)
         THEN /\ ScanRaise(scan_name, "ScanScriptsError", "include loop")
              /\ UNCHANGED <<including_suite_visited, including_suite_visited_set>>
         ELSE /\ including_suite_visited' = Append(including_suite_visited, one_suite)
              /\ including_suite_visited_set' = including_suite_visited_set \cup {one_suite}
              /\ IF ReadOneSuiteFile(one_suite).ok
                   THEN /\ scan_stack' =
                             Append(Below,
                                    [Top EXCEPT !.include_suite_set = @ \ {one_suite},
                                                !.waiting = "include"])
                             \o <<Frame(one_suite)>>
                        /\ UNCHANGED <<scan_result, scan_log>>
                   ELSE ScanRaise(scan_name, "ScanScriptsError", "invalid line")
  /\ UNCHANGED <<excluding_suite_visited, excluding_suite_visited_set,
                 excluding_suite_visisted_set, scan_name>>

\* One pass of the exclude loop of _ReadSuiteFiles, up to its recursive call.
ScanExclude ==
  /\ scan_stack # <<>>
  /\ UNCHANGED <<envVars, procVars, runVars>>
  /\ Top.waiting = "none"
  /\ Top.include_suite_set = {}
  /\ Top.exclude_suite_set # {}
  /\ \E one_suite \in Top.exclude_suite_set :
       IF ExcludeVisited(one_suite)
         THEN /\ ScanRaise(scan_name, "ScanScriptsError", "exclude loop")
              /\ UNCHANGED <<excluding_suite_visited, excluding_suite_visited_set>>
         ELSE /\ excluding_suite_visited' = Append(excluding_suite_visited, one_suite)
              /\ excluding_suite_visited_set' = excluding_suite_visited_set \cup {one_suite}
              /\ IF ReadOneSuiteFile(one_suite).ok
                   THEN /\ scan_stack' =
                             Append(Below,
                                    [Top EXCEPT !.exclude_suite_set = @ \ {one_suite},
                                                !.waiting = "exclude"])
                             \o <<Frame(one_suite)>>
                        /\ UNCHANGED <<scan_result, scan_log>>
                   ELSE ScanRaise(scan_name, "ScanScriptsError", "invalid line")
  /\ UNCHANGED <<including_suite_visited, including_suite_visited_set,
                 excluding_suite_visisted_set, scan_name>>

\* return include_testcase_set: to the calling _ReadSuiteFiles, which adds it
\* to or takes it from its own set, or to BaseScan, which parses the files.
ScanLeave ==
  /\ scan_stack # <<>>
  /\ UNCHANGED <<envVars, procVars, runVars>>
  /\ Top.waiting = "none"
  /\ Top.include_suite_set = {}
  /\ Top.exclude_suite_set = {}
  /\ IF Len(scan_stack) > 1
       THEN LET caller == scan_stack[Len(scan_stack) - 1]
                extra_testcase_set == Top.include_testcase_set
            IN /\ scan_stack' =
                    Append(SubSeq(scan_stack, 1, Len(scan_stack) - 2),
                           [caller EXCEPT
                              !.include_testcase_set =
                                 IF caller.waiting = "include"
                                   THEN @ \cup extra_testcase_set
                                   ELSE @ \ extra_testcase_set,
                              !.waiting = "none"])
               /\ UNCHANGED <<scan_result, scan_log>>
       ELSE \E files \in Orders(Top.include_testcase_set) :
              ScanReturn(scan_name, ParseSuite(scan_name, files, TRUE))
  /\ UNCHANGED <<including_suite_visited, including_suite_visited_set,
                 excluding_suite_visited, excluding_suite_visited_set,
                 excluding_suite_visisted_set, scan_name>>

(***************************************************************************)
(* BaseRunner._CommandStreamer.  A line of output is one of the strings    *)
(* below; In says which strings a line contains, Search which of the       *)
(* patterns fatal, error, warn (re.I) match it.                            *)
(***************************************************************************)
OutputLines == {"ok", "Fatal: disk", "FATAL", "Error 5", "warning"}

In(fatal_string, line) ==
  \/ fatal_string = ""
  \/ fatal_string = "Fatal:" /\ line = "Fatal: disk"

FATAL_PATTERN == "fatal"
ERROR_PATTERN == "error"
WARNING_PATTERN == "warn"
CATCHING_LIST == <<FATAL_PATTERN, ERROR_PATTERN, WARNING_PATTERN>>

Search(pattern, line) ==
  \/ pattern = FATAL_PATTERN /\ line \in {"Fatal: disk", "FATAL"}
  \/ pattern = ERROR_PATTERN /\ line = "Error 5"
  \/ pattern = WARNING_PATTERN /\ line = "warning"

\* The truth value of "ret is not None", which a zero status has as well.
TruthyNotNone(ret) == ret # None

\* The truth value Python gives a result in "if not ret".
Truthy(ret) == ret # None /\ ret # 0

\* The ExtraMessage call of the reporter.
ExtraMessage(cmd, line) == [ev |-> "ExtraMessage", name |-> cmd, result |-> line]

\* The loop over message.splitlines(): [ret, extra], the result after the
\* lines from i on and the ExtraMessage calls made for them.
RECURSIVE ScanOutput(_, _, _, _)
ScanOutput(cmd, message, i, ret) ==
  IF i > Len(message) THEN [ret |-> ret, extra |-> <<>>]
  ELSE LET line == message[i] IN
    IF ~Truthy(ret)
      THEN IF \E fatal_string \in fatal_strings : fatal_string # "" /\ In(fatal_string, line)
             THEN LET rest == ScanOutput(cmd, message, i + 1, 0 - 1)
                  IN [ret |-> rest.ret, extra |-> <<ExtraMessage(cmd, line)>> \o rest.extra]
             ELSE ScanOutput(cmd, message, i + 1, ret)
      ELSE LET rest == ScanOutput(cmd, message, i + 1, ret)
           IN IF \E k \in 1..Len(CATCHING_LIST) : Search(CATCHING_LIST[k], line)
                THEN [ret |-> rest.ret, extra |-> <<ExtraMessage(cmd, line)>> \o rest.extra]
                ELSE rest

\* What RunCommandToLoggerWithTimeout gives for a script: (ret, message) with
\* ret the exit status or None on a timeout, or an exception.
RunCommandRet(o) == IF o.kind = "timeout" THEN None ELSE o.code

\* A _CommandStreamer that lets every exception out as a keyboard interrupt.
CommandStreamerInterrupts(cmd, o) ==
  IF o.kind \in {"raise", "interrupt"}
    THEN [raised |-> "interrupt", ret |-> 0, extra |-> <<>>, cwd |-> cwd,
          dir |-> ScriptDir(cmd)]
    ELSE LET r == ScanOutput(cmd, o.message, 1, RunCommandRet(o))
         IN [raised |-> "no", ret |-> r.ret, extra |-> r.extra, cwd |-> cwd,
             dir |-> ScriptDir(cmd)]

\* A _CommandStreamer that goes back to current_path after its last statement only.
CommandStreamerNoFinally(cmd, o) ==
  LET current_path == cwd
      head == ScriptDir(cmd)
      entered == IF head # "" THEN head ELSE current_path
  IN IF o.kind \in {"raise", "interrupt"}
       THEN [raised |-> o.kind, ret |-> 0, extra |-> <<>>, cwd |-> entered, dir |-> entered]
       ELSE LET r == ScanOutput(cmd, o.message, 1, RunCommandRet(o))
            IN [raised |-> "no", ret |-> r.ret, extra |-> r.extra, cwd |-> current_path,
                dir |-> entered]

\* _CommandStreamer of a script whose run ends as o: [raised, ret, extra, cwd, dir].
\* dir is the directory the command ran in: ChDir(head) when the command has one; cwd
\* is the working directory when _CommandStreamer ends: the finally clause has gone
\* back to current_path, whichever way the try block ended.
CommandStreamer(cmd, o) ==
  LET current_path == cwd
      head == ScriptDir(cmd)
      entered == IF head # "" THEN head ELSE current_path
  IN IF o.kind \in {"raise", "interrupt"}
       THEN [raised |-> o.kind, ret |-> 0, extra |-> <<>>, cwd |-> current_path,
             dir |-> entered]
       ELSE LET r == ScanOutput(cmd, o.message, 1, RunCommandRet(o))
            IN [raised |-> "no", ret |-> r.ret, extra |-> r.extra, cwd |-> current_path,
                dir |-> entered]

(***************************************************************************)
(* BaseRunner._CheckAndReportResult.                                       *)
(***************************************************************************)
\* The comparison without % 256.
ClassifyNoModulo(one_script_dict, result) ==
  IF result = None THEN TIMEOUT
  ELSE IF result = one_script_dict["EXPECTED_RETURN"] THEN PASS
  ELSE IF result = one_script_dict["ERROR"] THEN ERROR
  ELSE FAIL

Classify(one_script_dict, result) ==
  IF result = None THEN TIMEOUT
  ELSE IF result = one_script_dict["EXPECTED_RETURN"] % 256 THEN PASS
  ELSE IF result = one_script_dict["ERROR"] % 256 THEN ERROR
  ELSE FAIL

TestCaseReport(cmd, result) == [ev |-> "TestCaseReport", name |-> cmd, result |-> result]
SuiteReport(one_suite, result) == [ev |-> "SuiteReport", name |-> one_suite, result |-> result]

\* The counters after one more script of the class.
Count(class) ==
  /\ passed' = IF class = PASS THEN passed + 1 ELSE passed
  /\ failed' = IF class = FAIL THEN failed + 1 ELSE failed
  /\ timeout' = IF class = TIMEOUT THEN timeout + 1 ELSE timeout
  /\ error' = IF class = ERROR THEN error + 1 ELSE error
  /\ notrun' = notrun

\* _CheckAndReportResult after the ExtraMessage calls before: the report,
\* the counter, and test_fail_flag or-ed into the suite's flag.
CheckAndReportResult(one_script_dict, result, before) ==
  LET class == Classify(one_script_dict, result) IN
  /\ reporter' = before \o <<TestCaseReport(one_script_dict["TEST_SCRIPT"], class)>>
  /\ Count(class)
  /\ suite_fail_flag' = ((class # PASS) \/ suite_fail_flag)

(***************************************************************************)
(* BaseRunner.Run, _Run, _RunSuites, _RunSingleSuite.                      *)
(***************************************************************************)
Running == [kind |-> "running", value |-> 0, exc |-> ""]
Raising(exc) == [kind |-> "raising", value |-> 0, exc |-> exc]

Names(p) ==
  CASE p = "setup" -> SETUP_SUITE
    [] p = "main" -> suite_list
    [] p = "teardown" -> TEARDOWN_SUITE

HeaderFile == "header_info.txt"
\* _AddUserInfo: the header file is attached when it can be read.
AddUserInfo(events) ==
  IF HeaderFile \in fs.files
    THEN Append(events, [ev |-> "AttachHeader", name |-> HeaderFile, result |-> ""])
    ELSE events

\* _SummaryToLog and the EndTest call of the reporter, the end of _Run.
SummaryToLog == [ev |-> "SummaryToLog", name |-> "", result |-> ""]
EndTest == [ev |-> "EndTest", name |-> "", result |-> ""]

\* A _Run that has the teardown suites before the user's.
AfterSuitesTeardownFirst(p, result, events) ==
  IF p = "setup" /\ result = 1
    THEN /\ pc' = "finally"
         /\ reporter' = events
         /\ UNCHANGED <<phase, name_idx>>
  ELSE IF p = "setup"
    THEN /\ pc' = "names"
         /\ phase' = "teardown"
         /\ name_idx' = 1
         /\ reporter' = events
  ELSE IF p = "teardown"
    THEN /\ pc' = "names"
         /\ phase' = "main"
         /\ name_idx' = 1
         /\ reporter' = AddUserInfo(events)
  ELSE /\ pc' = "finally"
       /\ reporter' = events \o <<SummaryToLog, EndTest>>
       /\ UNCHANGED <<phase, name_idx>>

\* _Run from the return of _RunSuites(Names(p)) with result on, after the
\* reporter got events: setup that failed ends _Run at once; the user's
\* suites follow setup, teardown follows them, and the summary and EndTest
\* end _Run.
AfterSuites(p, result, events) ==
  IF p = "setup" /\ result = 1
    THEN /\ pc' = "finally"
         /\ reporter' = events
         /\ UNCHANGED <<phase, name_idx>>
  ELSE IF p = "setup"
    THEN /\ pc' = "names"
         /\ phase' = "main"
         /\ name_idx' = 1
         /\ reporter' = AddUserInfo(events)
  ELSE IF p = "main" /\ ~skip_setup
    THEN /\ pc' = "names"
         /\ phase' = "teardown"
         /\ name_idx' = 1
         /\ reporter' = events
  ELSE /\ pc' = "finally"
       /\ reporter' = events \o <<SummaryToLog, EndTest>>
       /\ UNCHANGED <<phase, name_idx>>

\* Run calls _Run: StartTest, then the setup suites unless they are skipped.
RunStart ==
  /\ pc = "run"
  /\ LET events == Append(reporter, [ev |-> "StartTest", name |-> "", result |-> ""])
     IN IF skip_setup
          THEN /\ pc' = "names"
               /\ phase' = "main"
               /\ name_idx' = 1
               /\ reporter' = AddUserInfo(events)
          ELSE /\ pc' = "names"
               /\ phase' = "setup"
               /\ name_idx' = 1
               /\ reporter' = events
  /\ UNCHANGED <<envVars, procVars, scanVars, scripts, script_idx, suite_fail_flag, countVars,
                 exec_log, last_run, cwd, mail_sent, run_result>>

\* _RunSuites takes the next name and _RunSingleSuite calls BaseScan on it.
RunSingleSuite ==
  /\ pc = "names"
  /\ name_idx <= Len(Names(phase))
  /\ BaseScan(Names(phase)[name_idx])
  /\ pc' = "scan"
  /\ suite_fail_flag' = FALSE
  /\ UNCHANGED <<envVars, procVars, phase, name_idx, scripts, script_idx, countVars, reporter,
                 exec_log, last_run, cwd, mail_sent, run_result>>

\* A _RunSuites that reports a name it cannot resolve and counts it as not run.
ScannedCountsNotRun ==
  /\ pc = "scan"
  /\ scan_stack = <<>>
  /\ IF scan_result.kind = "list"
       THEN /\ scripts' = scan_result.list
            /\ script_idx' = 1
            /\ pc' = "scripts"
            /\ UNCHANGED <<name_idx, run_result, countVars, reporter>>
     ELSE IF scan_result.kind \in ScanScriptsErrors
       THEN /\ name_idx' = name_idx + 1
            /\ pc' = "names"
            /\ notrun' = notrun + 1
            /\ reporter' = Append(reporter, SuiteReport(Names(phase)[name_idx], NOTRUN))
            /\ UNCHANGED <<scripts, script_idx, run_result, passed, failed, timeout, error>>
     ELSE /\ pc' = "finally"
          /\ run_result' = Raising(scan_result.kind)
          /\ UNCHANGED <<scripts, script_idx, name_idx, countVars, reporter>>
  /\ UNCHANGED <<envVars, procVars, scanVars, phase, suite_fail_flag,
                 exec_log, last_run, cwd, mail_sent>>

\* BaseScan has ended: its list is run; a ScanScriptsError is caught by
\* _RunSuites, which goes on with the next name; any other exception leaves
\* _RunSuites and _Run.
Scanned ==
  /\ pc = "scan"
  /\ scan_stack = <<>>
  /\ IF scan_result.kind = "list"
       THEN /\ scripts' = scan_result.list
            /\ script_idx' = 1
            /\ pc' = "scripts"
            /\ UNCHANGED <<name_idx, run_result>>
     ELSE IF scan_result.kind \in ScanScriptsErrors
       THEN /\ name_idx' = name_idx + 1
            /\ pc' = "names"
            /\ UNCHANGED <<scripts, script_idx, run_result>>
     ELSE /\ pc' = "finally"
          /\ run_result' = Raising(scan_result.kind)
          /\ UNCHANGED <<scripts, script_idx, name_idx>>
  /\ UNCHANGED <<envVars, procVars, scanVars, phase, suite_fail_flag, countVars, reporter,
                 exec_log, last_run, cwd, mail_sent>>

\* One pass of the loop of _RunSingleSuite over a script whose run ends as o.
\* exec_log keeps the scripts started, with the class each one got.
RunScript(o) ==
  LET one_script_dict == scripts[script_idx]
      cmd == one_script_dict["TEST_SCRIPT"]
      s == CommandStreamer(cmd, o)
      class == IF s.raised = "interrupt" THEN "none"
               ELSE IF s.raised = "raise" THEN ERROR
               ELSE Classify(one_script_dict, s.ret)
  IN /\ exec_log' = Append(exec_log, [cmd |-> cmd, phase |-> phase,
                                      name_idx |-> name_idx, class |-> class])
     /\ cwd' = s.cwd
     /\ last_run' = [cmd |-> cmd, o |-> o, class |-> class,
                     ret |-> IF s.raised = "raise" THEN one_script_dict["ERROR"] ELSE s.ret,
                     dir |-> s.dir]
     /\ IF s.raised = "interrupt"
          \* The except KeyboardInterrupt clause: the operands of % in its
          \* first statement do not fit the format, TypeError leaves Run.
          THEN /\ pc' = "finally"
               /\ run_result' = Raising("TypeError")
               /\ UNCHANGED <<script_idx, suite_fail_flag, countVars, reporter>>
        ELSE IF s.raised = "raise"
          THEN /\ reporter' = Append(reporter, TestCaseReport(cmd, ERROR))
               /\ Count(ERROR)
               /\ suite_fail_flag' = TRUE
               /\ script_idx' = script_idx + 1
               /\ UNCHANGED <<pc, run_result>>
          ELSE /\ CheckAndReportResult(one_script_dict, s.ret, reporter \o s.extra)
               /\ script_idx' = script_idx + 1
               /\ UNCHANGED <<pc, run_result>>

\* The runs a script can have in the engine's specification.
RunOutcomes ==
  {[kind |-> "exit", code |-> 0, message |-> <<"ok">>],
   [kind |-> "exit", code |-> 1, message |-> <<>>],
   [kind |-> "exit", code |-> 255, message |-> <<>>],
   [kind |-> "timeout", code |-> 0, message |-> <<>>],
   [kind |-> "raise", code |-> 0, message |-> <<>>],
   [kind |-> "interrupt", code |-> 0, message |-> <<>>]}

ExecScript ==
  /\ pc = "scripts"
  /\ script_idx <= Len(scripts)
  /\ \E o \in RunOutcomes : RunScript(o)
  /\ UNCHANGED <<envVars, procVars, scanVars, phase, name_idx, scripts, mail_sent>>

\* A _RunSuites that goes on with the next name after a failed setup suite.
SuiteEndGoesOn ==
  /\ pc = "scripts"
  /\ script_idx > Len(scripts)
  /\ name_idx' = name_idx + 1
  /\ pc' = "names"
  /\ reporter' = Append(reporter, SuiteReport(Names(phase)[name_idx],
                                              IF suite_fail_flag THEN FAIL ELSE PASS))
  /\ UNCHANGED <<envVars, procVars, scanVars, phase, scripts, script_idx, suite_fail_flag,
                 countVars, exec_log, last_run, cwd, mail_sent, run_result>>

\* The loop of _RunSingleSuite is over: SuiteReport, and _RunSuites returns 1
\* for a failed suite with a setup name, or goes on with the next name.
SuiteEnd ==
  /\ pc = "scripts"
  /\ script_idx > Len(scripts)
  /\ LET test == Names(phase)[name_idx]
         events == Append(reporter,
                          SuiteReport(test, IF suite_fail_flag THEN FAIL ELSE PASS))
     IN IF suite_fail_flag /\ test \in SETUP_SUITE_SET
          THEN AfterSuites(phase, 1, events)
          ELSE /\ name_idx' = name_idx + 1
               /\ pc' = "names"
               /\ reporter' = events
               /\ UNCHANGED phase
  /\ UNCHANGED <<envVars, procVars, scanVars, scripts, script_idx, suite_fail_flag, countVars,
                 exec_log, last_run, cwd, mail_sent, run_result>>

\* The loop of _RunSuites is over: it returns 0.
SuitesEnd ==
  /\ pc = "names"
  /\ name_idx > Len(Names(phase))
  /\ AfterSuites(phase, 0, reporter)
  /\ UNCHANGED <<envVars, procVars, scanVars, scripts, script_idx, suite_fail_flag, countVars,
                 exec_log, last_run, cwd, mail_sent, run_result>>

\* A Run whose return value leaves the timeouts out.
RunFinallyNoTimeouts ==
  /\ pc = "finally"
  /\ pc' = "done"
  /\ mail_sent' = IF email_flag /\ (failed + timeout + error + notrun) # 0
                    THEN mail_sent + 1 ELSE mail_sent
  /\ run_result' = IF run_result.kind = "raising"
                     THEN [run_result EXCEPT !.kind = "raised"]
                     ELSE [kind |-> "returned", value |-> failed + error + notrun,
                           exc |-> ""]
  /\ UNCHANGED <<envVars, procVars, scanVars, phase, name_idx, scripts, script_idx,
                 suite_fail_flag, countVars, reporter, exec_log, last_run, cwd>>

\* A Run that sends its mail after _Run has returned, with no finally.
RunFinallyMailAfterReturn ==
  /\ pc = "finally"
  /\ pc' = "done"
  /\ mail_sent' = IF run_result.kind # "raising" /\ email_flag
                     /\ (failed + timeout + error + notrun) # 0
                    THEN mail_sent + 1 ELSE mail_sent
  /\ run_result' = IF run_result.kind = "raising"
                     THEN [run_result EXCEPT !.kind = "raised"]
                     ELSE [kind |-> "returned",
                           value |-> failed + timeout + error + notrun, exc |-> ""]
  /\ UNCHANGED <<envVars, procVars, scanVars, phase, name_idx, scripts, script_idx,
                 suite_fail_flag, countVars, reporter, exec_log, last_run, cwd>>

\* The finally clause of Run and its return statement.
RunFinally ==
  /\ pc = "finally"
  /\ pc' = "done"
  /\ mail_sent' = IF email_flag /\ (failed + timeout + error + notrun) # 0
                    THEN mail_sent + 1 ELSE mail_sent
  /\ run_result' = IF run_result.kind = "raising"
                     THEN [run_result EXCEPT !.kind = "raised"]
                     ELSE [kind |-> "returned",
                           value |-> failed + timeout + error + notrun, exc |-> ""]
  /\ UNCHANGED <<envVars, procVars, scanVars, phase, name_idx, scripts, script_idx,
                 suite_fail_flag, countVars, reporter, exec_log, last_run, cwd>>

(***************************************************************************)
(* File systems.                                                           *)
(***************************************************************************)
Line(exclude, path) == [exclude |-> exclude, path |-> path]
NoLines == [p \in SuiteNames |-> {}]
KV(key, value) == [k \in {key} |-> value]

\* The user's files of the engine's runs: a.suite and b.suite both include
\* c.suite, a.suite excludes x.suite, bad.suite has a line that names nothing,
\* notes.txt is no script.
UserFiles == {"a.suite", "b.suite", "c.suite", "x.suite", "bad.suite", "t1.sh", "t2.sh",
              "dir1/t3.sh", "notes.txt", "TEARDOWN.sh"}
UserLines ==
  [NoLines EXCEPT !["a.suite"] = {Line(FALSE, "c.suite"), Line(TRUE, "x.suite")},
                  !["b.suite"] = {Line(FALSE, "c.suite"), Line(TRUE, "t2.sh")},
                  !["c.suite"] = {Line(FALSE, "t1.sh")},
                  !["x.suite"] = {Line(FALSE, "t2.sh")},
                  !["bad.suite"] = {Line(FALSE, "nowhere")}]
UserDirs == [d \in DirNames |-> {"dir1/t3.sh"}]

\* Setup is one suite file of two scripts; the suite file and s2.sh each have a
\* TIMEOUT and a TEST_SCRIPT directive of their own.
FsSuite ==
  [files |-> UserFiles \cup {"SETUP.suite", "s1.sh", "s2.sh"},
   dirs |-> UserDirs,
   lines |-> [UserLines EXCEPT !["SETUP.suite"] = {Line(FALSE, "s1.sh"), Line(FALSE, "s2.sh")}],
   config |-> [p \in {"s2.sh", "SETUP.suite"} |->
                 IF p = "s2.sh"
                   THEN [bad |-> FALSE,
                         kv |-> KV("EXPECTED_RETURN", 1) @@ KV("TIMEOUT", 5)
                                  @@ KV("TEST_SCRIPT", "t2.sh")]
                   ELSE [bad |-> FALSE,
                         kv |-> KV("TIMEOUT", 10) @@ KV("TEST_SCRIPT", "t2.sh")]]]

\* Setup is a script and a suite file of one script; TEARDOWN.py has a
\* TIMEOUT that is no integer, b.suite a start marker without an end marker.
FsScript ==
  [files |-> UserFiles \cup {"SETUP.sh", "SETUP.suite", "s1.sh", "TEARDOWN.py",
                            HeaderFile},
   dirs |-> UserDirs,
   lines |-> [UserLines EXCEPT !["SETUP.suite"] = {Line(FALSE, "s1.sh")}],
   config |-> [p \in {"TEARDOWN.py", "b.suite"} |-> [bad |-> TRUE, kv |-> <<>>]]]

RunFileSystems == {FsSuite, FsScript}

\* The names a user gives on the command line, and how many of them.
UserNames == {"a.suite", "b.suite", "SETUP.suite", "bad.suite", "notes.txt"}
MaxNames == 2
SuiteLists == UNION {[1..n -> UserNames] : n \in 1..MaxNames}

(***************************************************************************)
(* The state after ScanScripts.__init__ and BaseRunner.__init__.           *)
(***************************************************************************)
ScannerInit ==
  /\ including_suite_visited = <<>>
  /\ excluding_suite_visited = <<>>
  /\ including_suite_visited_set = {}
  /\ excluding_suite_visited_set = {}
  /\ excluding_suite_visisted_set = {}
  /\ scan_name = ""
  /\ scan_stack = <<>>
  /\ scan_result = [kind |-> "none", list |-> <<>>, why |-> ""]
  /\ scan_log = <<>>

NoRun == [cmd |-> "", o |-> [kind |-> "none", code |-> 0, message |-> <<>>],
          ret |-> 0, class |-> "none", dir |-> ""]

RunnerInit ==
  /\ failed = 0
  /\ passed = 0
  /\ timeout = 0
  /\ error = 0
  /\ notrun = 0
  /\ reporter = <<>>
  /\ exec_log = <<>>
  /\ last_run = NoRun
  /\ cwd = "/home"
  /\ mail_sent = 0
  /\ run_result = Running
  /\ scripts = <<>>
  /\ script_idx = 1
  /\ suite_fail_flag = FALSE
  /\ phase = "none"
  /\ name_idx = 1

\* No command is being run.
NoCommand == [chunks |-> 0, code |-> 0, hangs |-> FALSE, forks |-> FALSE]
NoResult == [kind |-> "none", ret |-> None, output |-> <<>>, exc |-> ""]
ProcIdle ==
  /\ command = NoCommand
  /\ time_out = 0
  /\ proc_pc = "idle"
  /\ start_time = 0
  /\ output = <<>>
  /\ pipe = <<>>
  /\ alive = {}
  /\ returncode = None
  /\ written = 0
  /\ stepped = FALSE
  /\ proc_result = NoResult

(***************************************************************************)
(* Spec: one call of Run on a new runner, as pyrering.main makes it.       *)
(***************************************************************************)
Init ==
  /\ fs \in RunFileSystems
  /\ fatal_strings = {"Fatal:"}
  /\ skip_setup \in BOOLEAN
  /\ suite_list \in SuiteLists
  /\ email_flag \in BOOLEAN
  /\ ScannerInit
  /\ RunnerInit
  /\ ProcIdle
  /\ pc = "run"

Next ==
  \/ RunStart
  \/ RunSingleSuite
  \/ ScanInclude
  \/ ScanExclude
  \/ ScanLeave
  \/ Scanned
  \/ ExecScript
  \/ SuiteEnd
  \/ SuitesEnd
  \/ RunFinally

Spec == Init /\ [][Next]_vars

(***************************************************************************)
(* SpecScan: BaseScan calls on one ScanScripts instance, over every file   *)
(* system of three suite files and two scripts with at most MaxLines       *)
(* directive lines in all.                                                 *)
(***************************************************************************)
ScanSuites == <<"a.suite", "b.suite", "c.suite">>
ScanTargets == <<"a.suite", "b.suite", "c.suite", "t1.sh", "t2.sh">>
ScanNames == {"a.suite", "b.suite"}
MaxLines == 3
MaxScans == 2

\* The i-th possible line: the suite file it is in, its '-', its path.
NumLineSpecs == Len(ScanSuites) * 2 * Len(ScanTargets)
LineSpec(i) ==
  [suite |-> ScanSuites[(i \div (2 * Len(ScanTargets))) + 1],
   exclude |-> ((i % (2 * Len(ScanTargets))) \div Len(ScanTargets)) = 1,
   path |-> ScanTargets[(i % Len(ScanTargets)) + 1]]

\* The sets of at most k lines among those from lo on.
RECURSIVE LineSets(_, _)
LineSets(k, lo) ==
  IF k = 0 THEN {{}}
  ELSE {{}} \cup UNION {{{i} \cup t : t \in LineSets(k - 1, i + 1)} :
                        i \in lo..(NumLineSpecs - 1)}

ScanFs(I) ==
  [files |-> Range(ScanTargets),
   dirs |-> <<>>,
   lines |-> [p \in SuiteNames |->
                {Line(LineSpec(i).exclude, LineSpec(i).path) :
                   i \in {j \in I : LineSpec(j).suite = p}}],
   config |-> <<>>]

\* Suite files where a suite that is included and a suite that is excluded name the
\* same script.
SharedScriptLines ==
  {[suite |-> "a.suite", exclude |-> FALSE, path |-> "c.suite"],
   [suite |-> "a.suite", exclude |-> FALSE, path |-> "t2.sh"],
   [suite |-> "a.suite", exclude |-> TRUE, path |-> "b.suite"],
   [suite |-> "b.suite", exclude |-> FALSE, path |-> "t1.sh"],
   [suite |-> "c.suite", exclude |-> FALSE, path |-> "t1.sh"]}
LinesOf(L) == {i \in 0..(NumLineSpecs - 1) : LineSpec(i) \in L}

\* Suite files with no loop where two included suites both include a third.
DiamondFs ==
  [files |-> Range(ScanTargets) \cup {"x.suite"},
   dirs |-> <<>>,
   lines |-> [NoLines EXCEPT !["a.suite"] = {Line(FALSE, "b.suite"), Line(FALSE, "c.suite")},
                             !["b.suite"] = {Line(FALSE, "x.suite")},
                             !["c.suite"] = {Line(FALSE, "x.suite")},
                             !["x.suite"] = {Line(FALSE, "t1.sh")}],
   config |-> <<>>]

ScanFileSystems ==
  {ScanFs(I) : I \in LineSets(MaxLines, 0)}
    \cup {ScanFs(LinesOf(SharedScriptLines)), DiamondFs}

InitScan ==
  /\ fs \in ScanFileSystems
  /\ fatal_strings = {""}
  /\ skip_setup = FALSE
  /\ suite_list = <<>>
  /\ email_flag = FALSE
  /\ ScannerInit
  /\ RunnerInit
  /\ ProcIdle
  /\ pc = "idle"

\* A caller of BaseScan other than the engine.
ScanCall ==
  /\ pc = "idle"
  /\ scan_stack = <<>>
  /\ Len(scan_log) < MaxScans
  /\ \E suite_name \in ScanNames : BaseScan(suite_name)
  /\ UNCHANGED <<envVars, procVars, runVars>>

NextScan == ScanCall \/ ScanInclude \/ ScanExclude \/ ScanLeave

SpecScan == InitScan /\ [][NextScan]_vars

(***************************************************************************)
(* SpecScript: the engine at the one script of a user's name, for every    *)
(* EXPECTED_RETURN and ERROR of the script in a range around 0..255, and   *)
(* every exit status.                                                      *)
(***************************************************************************)
ExitStatuses == 0..(256 - 1)
ExpectedBelow == 2
MaxExpected == 257
ExpectedValues == (0 - ExpectedBelow)..MaxExpected
ErrorValues == {DefaultError, 0 - 1}
FatalSettings == {{""}, {"Fatal:"}}
Messages == {<<>>, <<"ok", "Fatal: disk">>}

AllOutcomes ==
  {[kind |-> "exit", code |-> c, message |-> m] : c \in ExitStatuses, m \in Messages}
  \cup {[kind |-> "timeout", code |-> 0, message |-> m] : m \in Messages}
  \cup {[kind |-> k, code |-> 0, message |-> <<>>] : k \in {"raise", "interrupt"}}

\* The script t1.sh with EXPECTED_RETURN x and ERROR e in its header.
ScriptFs(x, e) ==
  [files |-> {"t1.sh"},
   dirs |-> <<>>,
   lines |-> NoLines,
   config |-> [p \in {"t1.sh"} |->
                 [bad |-> FALSE, kv |-> KV("EXPECTED_RETURN", x) @@ KV("ERROR", e)]]]

\* Run has scanned the user's name t1.sh, setup skipped.
InitScript ==
  /\ \E x \in ExpectedValues, e \in ErrorValues : fs = ScriptFs(x, e)
  /\ fatal_strings \in FatalSettings
  /\ skip_setup = TRUE
  /\ suite_list = <<"t1.sh">>
  /\ email_flag = FALSE
  /\ including_suite_visited = <<>>
  /\ excluding_suite_visited = <<>>
  /\ including_suite_visited_set = {}
  /\ excluding_suite_visited_set = {}
  /\ excluding_suite_visisted_set = {}
  /\ scan_name = "t1.sh"
  /\ scan_stack = <<>>
  /\ scan_result = Returned(ParseFiles(<<"t1.sh">>, TRUE).list)
  /\ scan_log = <<[name |-> "t1.sh", outcome |-> scan_result]>>
  /\ scripts = scan_result.list
  /\ failed = 0
  /\ passed = 0
  /\ timeout = 0
  /\ error = 0
  /\ notrun = 0
  /\ reporter = <<[ev |-> "StartTest", name |-> "", result |-> ""]>>
  /\ exec_log = <<>>
  /\ last_run = NoRun
  /\ cwd = "/home"
  /\ mail_sent = 0
  /\ run_result = Running
  /\ script_idx = 1
  /\ suite_fail_flag = FALSE
  /\ phase = "main"
  /\ name_idx = 1
  /\ ProcIdle
  /\ pc = "scripts"

ExecAnyScript ==
  /\ pc = "scripts"
  /\ script_idx <= Len(scripts)
  /\ \E o \in AllOutcomes : RunScript(o)
  /\ UNCHANGED <<envVars, procVars, scanVars, phase, name_idx, scripts, mail_sent>>

NextScript == ExecAnyScript

SpecScript == InitScript /\ [][NextScript]_vars

(***************************************************************************)
(* SpecProc: one call of RunCommandToLoggerWithTimeout.  The command is a  *)
(* shell that writes chunks 1..chunks to the pipe and then exits with code,*)
(* or never exits (hangs); it may have started a descendant (forks).  The  *)
(* pipe holds at most PipeCap chunks: a writer at a full pipe waits.       *)
(***************************************************************************)
MaxChunks == 4
PipeCap == 2
MaxProcTimeout == 6
Commands == [chunks : 0..MaxChunks, code : {0, 1}, hangs : BOOLEAN, forks : BOOLEAN]
\* The timeouts of a call: a header may give any integer, also 0 or less.
Timeouts == (0 - 1)..MaxProcTimeout

ProcReturned(ret, out) == [kind |-> "returned", ret |-> ret, output |-> out, exc |-> ""]
ProcRaised(exc) == [kind |-> "raised", ret |-> None, output |-> <<>>, exc |-> exc]

\* The processes subprocess.Popen(command, shell=True) gives rise to.
Subtree(c) == IF c.forks THEN {"shell", "descendant"} ELSE {"shell"}

\* _ReadPipe on the non-blocking pipe: all that is there, without waiting.
ReadPipe(p) == p

\* os.kill(proc.pid, signal.SIGKILL): the process of that pid, and no other.
Kill(running) == running \ {"shell"}

procOthers == <<envVars, scanVars, runVars>>

\* subprocess.Popen starts the shell
Popen ==
  /\ proc_pc = "start"
  /\ proc_pc' = "while"
  /\ alive' = Subtree(command)
  /\ start_time' = 0
  /\ output' = <<>>
  /\ UNCHANGED <<command, time_out, pipe, returncode, written, stepped, proc_result>>
  /\ UNCHANGED procOthers

\* or raises OSError, and nothing was started.
PopenFails ==
  /\ proc_pc = "start"
  /\ proc_pc' = "raised"
  /\ proc_result' = ProcRaised("OSError")
  /\ UNCHANGED <<command, time_out, start_time, output, pipe, alive, returncode, written,
                 stepped>>
  /\ UNCHANGED procOthers

\* A loop test that lets the loop go round once more.
WhileOneMore ==
  /\ proc_pc = "while"
  /\ proc_pc' = IF start_time <= time_out /\ returncode = None THEN "sleep" ELSE "after"
  /\ UNCHANGED <<command, time_out, start_time, output, pipe, alive, returncode, written,
                 stepped, proc_result>>
  /\ UNCHANGED procOthers

\* while start_time < timeout and proc.poll() is None
While ==
  /\ proc_pc = "while"
  /\ proc_pc' = IF start_time < time_out /\ returncode = None THEN "sleep" ELSE "after"
  /\ UNCHANGED <<command, time_out, start_time, output, pipe, alive, returncode, written,
                 stepped, proc_result>>
  /\ UNCHANGED procOthers

\* A command that can move does so within a second.
CommandCanStep ==
  /\ "shell" \in alive
  /\ \/ written < command.chunks /\ Len(pipe) < PipeCap
     \/ written = command.chunks /\ ~command.hangs

\* time.sleep(1); start_time += 1
Sleep ==
  /\ proc_pc = "sleep"
  /\ stepped \/ ~CommandCanStep
  /\ proc_pc' = "read"
  /\ start_time' = start_time + 1
  /\ stepped' = FALSE
  /\ UNCHANGED <<command, time_out, output, pipe, alive, returncode, written, proc_result>>
  /\ UNCHANGED procOthers

\* A loop that sleeps and polls and leaves the pipe alone.
ReadInLoopSkipped ==
  /\ proc_pc = "read"
  /\ proc_pc' = "while"
  /\ UNCHANGED <<command, time_out, start_time, output, pipe, alive, returncode, written,
                 stepped, proc_result>>
  /\ UNCHANGED procOthers

\* mesg = self._ReadPipe(p); output += mesg
ReadInLoop ==
  /\ proc_pc = "read"
  /\ proc_pc' = "while"
  /\ output' = output \o ReadPipe(pipe)
  /\ pipe' = SubSeq(pipe, Len(ReadPipe(pipe)) + 1, Len(pipe))
  /\ UNCHANGED <<command, time_out, start_time, alive, returncode, written, stepped,
                 proc_result>>
  /\ UNCHANGED procOthers

\* fd.read raises IOError with an errno other than EAGAIN: _ReadPipe raises it again
\* and nothing in the runner catches it.
ReadPipeFails ==
  /\ \/ proc_pc = "read"
     \/ proc_pc = "after" /\ returncode # None
  /\ proc_pc' = "raised"
  /\ proc_result' = ProcRaised("IOError")
  /\ UNCHANGED <<command, time_out, start_time, output, pipe, alive, returncode, written,
                 stepped>>
  /\ UNCHANGED procOthers

\* A keyboard interrupt while the runner sleeps, polls or reads.  The terminal gives the
\* signal to the command as well, which dies of it or ignores it.
ProcInterrupt ==
  /\ proc_pc \in {"while", "sleep", "read"}
  /\ proc_pc' = "raised"
  /\ proc_result' = ProcRaised("KeyboardInterrupt")
  /\ \E survivors \in {alive, {}} : alive' = survivors
  /\ UNCHANGED <<command, time_out, start_time, output, pipe, returncode, written, stepped>>
  /\ UNCHANGED procOthers

\* After the loop: the last read and proc.wait() of a command that has exited, or
\* os.kill and None.
AfterLoop ==
  /\ proc_pc = "after"
  /\ proc_pc' = "returned"
  /\ IF returncode # None
       THEN /\ output' = output \o ReadPipe(pipe)
            /\ pipe' = SubSeq(pipe, Len(ReadPipe(pipe)) + 1, Len(pipe))
            /\ proc_result' = ProcReturned(returncode, output')
            /\ alive' = alive
       ELSE /\ alive' = Kill(alive)
            /\ proc_result' = ProcReturned(None, output)
            /\ UNCHANGED <<output, pipe>>
  /\ UNCHANGED <<command, time_out, start_time, returncode, written, stepped>>
  /\ UNCHANGED procOthers

CommandRuns == "shell" \in alive /\ proc_pc \in {"while", "sleep", "read", "after"}

\* The command writes its next chunk to a pipe that has room.
CommandWrite ==
  /\ CommandRuns
  /\ written < command.chunks
  /\ Len(pipe) < PipeCap
  /\ pipe' = Append(pipe, written + 1)
  /\ written' = written + 1
  /\ stepped' = TRUE
  /\ UNCHANGED <<command, time_out, proc_pc, start_time, output, alive, returncode,
                 proc_result>>
  /\ UNCHANGED procOthers

\* The command has written everything and exits, its descendant with it.
CommandExit ==
  /\ CommandRuns
  /\ written = command.chunks
  /\ ~command.hangs
  /\ alive' = {}
  /\ returncode' = command.code
  /\ stepped' = TRUE
  /\ UNCHANGED <<command, time_out, proc_pc, start_time, output, pipe, written, proc_result>>
  /\ UNCHANGED procOthers

InitProc ==
  /\ fs = FsScript
  /\ fatal_strings = {""}
  /\ skip_setup = FALSE
  /\ suite_list = <<>>
  /\ email_flag = FALSE
  /\ ScannerInit
  /\ RunnerInit
  /\ pc = "idle"
  /\ command \in Commands
  /\ time_out \in Timeouts
  /\ proc_pc = "start"
  /\ start_time = 0
  /\ output = <<>>
  /\ pipe = <<>>
  /\ alive = {}
  /\ returncode = None
  /\ written = 0
  /\ stepped = FALSE
  /\ proc_result = NoResult

RunnerStep ==
  \/ Popen
  \/ PopenFails
  \/ While
  \/ Sleep
  \/ ReadInLoop
  \/ ReadPipeFails
  \/ ProcInterrupt
  \/ AfterLoop

CommandStep ==
  \/ CommandWrite
  \/ CommandExit

NextProc ==
  \/ RunnerStep
  \/ CommandStep

SpecProc == InitProc /\ [][NextProc]_vars

\* The runner is a running thread and the command a running process: each moves on
\* while it can.
SpecProcFair == SpecProc /\ WF_vars(RunnerStep) /\ WF_vars(CommandStep)

(***************************************************************************)
(* Properties of a run of the engine (Spec).                               *)
(***************************************************************************)
NonPass == {FAIL, TIMEOUT, ERROR}
Executed == 1..Len(exec_log)
Rank(p) == CASE p = "setup" -> 1 [] p = "main" -> 2 [] p = "teardown" -> 3

\* C2: the value Run returns is failed+timeout+error+notrun, each counter
\* being the number of scripts of the run that got its class, and the value is
\* 0 exactly when every script executed in the run, of setup, of the user's
\* suites and of teardown, was classified PASS.
C2_RunReturnsSum ==
  run_result.kind = "returned" =>
    /\ run_result.value = failed + timeout + error + notrun
    /\ failed = Cardinality({i \in Executed : exec_log[i].class = FAIL})
    /\ timeout = Cardinality({i \in Executed : exec_log[i].class = TIMEOUT})
    /\ error = Cardinality({i \in Executed : exec_log[i].class = ERROR})
    /\ notrun = 0
    /\ (run_result.value = 0 <=> \A i \in Executed : exec_log[i].class = PASS)

\* A run that returned 0 after scripts of setup, of a user's suite and of
\* teardown.
C2_Witness ==
  /\ run_result.kind = "returned"
  /\ run_result.value = 0
  /\ {exec_log[i].phase : i \in Executed} = {"setup", "main", "teardown"}

\* C3: when setup is not skipped and a script of a setup suite is not PASS,
\* no script of a user's suite and no teardown script is executed in the run,
\* and the value Run returns is not 0 and counts the setup scripts that are
\* not PASS, nothing else.  Run returns unless a later script of the same
\* setup suite is interrupted from the keyboard, which is the only way left
\* for an exception to leave it.
C3_SetupFailureEndsRun ==
  (~skip_setup /\ \E i \in Executed : exec_log[i].phase = "setup"
                                       /\ exec_log[i].class \in NonPass) =>
    /\ \A j \in Executed : exec_log[j].phase = "setup"
    /\ pc = "done" =>
         \/ /\ run_result.kind = "returned"
            /\ run_result.value # 0
            /\ run_result.value =
                 Cardinality({i \in Executed : exec_log[i].phase = "setup"
                                               /\ exec_log[i].class \in NonPass})
         \/ /\ run_result.kind = "raised"
            /\ last_run.o.kind = "interrupt"

\* Run has returned 1 for the one setup script that failed, the other script
\* of the setup suite passed.
C3_Witness ==
  /\ pc = "done"
  /\ run_result.kind = "returned"
  /\ run_result.value = 1
  /\ Len(exec_log) = 2
  /\ exec_log[1].phase = "setup"
  /\ exec_log[1].class = FAIL
  /\ exec_log[2].class = PASS

\* C4: the scripts of a run are executed one after the other, those of the
\* setup suites before those of the user's suites, those before the teardown
\* scripts, and those of the user's names in the order of the names.
C4_PhasesInOrder ==
  \A i, j \in Executed :
    i < j =>
      /\ Rank(exec_log[i].phase) <= Rank(exec_log[j].phase)
      /\ (exec_log[i].phase = "main" /\ exec_log[j].phase = "main") =>
            exec_log[i].name_idx <= exec_log[j].name_idx
      /\ exec_log[i].phase = "main" => exec_log[i].name_idx \in 1..Len(suite_list)

\* A setup script, a script of the user's first name, one of the second name
\* and a teardown script were executed.
C4_Witness ==
  \E i, j, k, l \in Executed :
    /\ i < j /\ j < k /\ k < l
    /\ exec_log[i].phase = "setup"
    /\ exec_log[j].phase = "main" /\ exec_log[j].name_idx = 1
    /\ exec_log[k].phase = "main" /\ exec_log[k].name_idx = 2
    /\ exec_log[l].phase = "teardown"

\* C9: a script whose execution raises an exception that is no keyboard
\* interrupt gets one TestCaseReport with ERROR, the error counter one more
\* and no other counter changed, the suite is marked failed, and the loop
\* goes on with the next script of the suite; the SuiteReport comes only
\* after the last script.
C9_ExceptionIsError ==
  [][/\ (exec_log' # exec_log /\ last_run'.o.kind = "raise") =>
          /\ reporter' = Append(reporter, TestCaseReport(scripts[script_idx]["TEST_SCRIPT"],
                                                         ERROR))
          /\ error' = error + 1
          /\ UNCHANGED <<passed, failed, timeout, notrun>>
          /\ suite_fail_flag'
          /\ pc' = "scripts"
          /\ scripts' = scripts
          /\ script_idx' = script_idx + 1
          /\ run_result' = run_result
     /\ (pc = "scripts" /\ pc' # "scripts" /\ run_result' = run_result) =>
          /\ script_idx > Len(scripts)
          /\ Cardinality({i \in Executed : exec_log[i].phase = phase
                                           /\ exec_log[i].name_idx = name_idx})
               = Len(scripts)
    ]_vars

\* The first script of a suite of two has raised and the second one is the
\* next to be executed.
C9_Witness ==
  /\ last_run.o.kind = "raise"
  /\ pc = "scripts"
  /\ Len(scripts) = 2
  /\ script_idx = 2
  /\ error = 1
  /\ suite_fail_flag
  /\ reporter[Len(reporter)] = TestCaseReport(scripts[1]["TEST_SCRIPT"], ERROR)

\* C10: when BaseScan of a name of the setup, of the user's or of the
\* teardown list raises for a name that is not found, a file that is no test,
\* an invalid line of a suite file or a loop of suite files, _RunSuites goes
\* on with the next name of the list: no counter changes, nothing is
\* reported, no script is executed and Run does not fail for it.
ResolveFailures == {"wrong suite name", "extension", "invalid line",
                    "include loop", "exclude loop"}
C10_ScanErrorSkipsName ==
  [][(pc = "scan" /\ scan_stack = <<>> /\ scan_result.why \in ResolveFailures
      /\ pc' # "scan") =>
        /\ pc' = "names"
        /\ name_idx' = name_idx + 1
        /\ UNCHANGED <<phase, countVars, reporter, exec_log, run_result, suite_list>>
    ]_vars

\* The user's first name was a file that is no test and a script of the
\* user's second name was executed.
C10_Witness ==
  /\ suite_list[1] = "notes.txt"
  /\ \E i \in DOMAIN scan_log : scan_log[i].outcome.why = "extension"
  /\ \E i \in Executed : exec_log[i].phase = "main" /\ exec_log[i].name_idx = 2
  /\ failed + timeout + error + notrun = 0

(***************************************************************************)
(* Properties of the classification of one script (SpecScript).            *)
(***************************************************************************)
\* The status in 0..255 that is congruent to x modulo 256.
Wraps == (0 - 2)..2
Residue(x) == CHOOSE r \in {x - 256 * k : k \in Wraps} : r \in ExitStatuses
LastReport == reporter[Len(reporter)]
Counters == <<passed, failed, timeout, error, notrun>>
CountersOf(class) ==
  <<IF class = PASS THEN 1 ELSE 0, IF class = FAIL THEN 1 ELSE 0,
    IF class = TIMEOUT THEN 1 ELSE 0, IF class = ERROR THEN 1 ELSE 0, 0>>
FatalLine(message) ==
  \E i \in DOMAIN message, fatal_string \in fatal_strings :
    fatal_string # "" /\ In(fatal_string, message[i])

\* C1: the result _CommandStreamer gives for a script is classified TIMEOUT
\* when it is the timeout value, else PASS when it is the status congruent to
\* EXPECTED_RETURN modulo 256, else ERROR when it is the status congruent to
\* ERROR, else FAIL; so a result e in 0..255 is PASS exactly when e and
\* EXPECTED_RETURN are congruent modulo 256, also when ERROR is congruent to
\* them.  The class is the one reported and counted.
C1_ClassifyPriority ==
  last_run.o.kind \in {"exit", "timeout"} =>
    LET result == last_run.ret
        expected == scripts[1]["EXPECTED_RETURN"]
        class == IF result = None THEN TIMEOUT
                 ELSE IF result = Residue(expected) THEN PASS
                 ELSE IF result = Residue(scripts[1]["ERROR"]) THEN ERROR
                 ELSE FAIL
    IN /\ last_run.class = class
       /\ LastReport = TestCaseReport("t1.sh", class)
       /\ Counters = CountersOf(class)
       /\ suite_fail_flag = (class # PASS)
       /\ result \in ExitStatuses =>
            (class = PASS <=> \E k \in Wraps : result - expected = 256 * k)

\* The script exited with 255, EXPECTED_RETURN is -1 and ERROR is 255: PASS.
C1_Witness ==
  /\ last_run.o.kind = "exit"
  /\ last_run.ret = 255
  /\ scripts[1]["EXPECTED_RETURN"] = 0 - 1
  /\ scripts[1]["ERROR"] = 255
  /\ last_run.class = PASS
  /\ passed = 1
  /\ error = 0

\* C5: a script that was still running at its timeout is classified TIMEOUT,
\* the timeout counter is one more and no other counter is, whatever it had
\* written before.
C5_TimeoutIsTimeout ==
  last_run.o.kind = "timeout" =>
    /\ last_run.class = TIMEOUT
    /\ LastReport = TestCaseReport("t1.sh", TIMEOUT)
    /\ Counters = CountersOf(TIMEOUT)

\* C6: a script that exits with 0 and has a line of output with a configured
\* fatal string that is not empty is classified FAIL, for every
\* EXPECTED_RETURN and ERROR of the script.
C6_FatalStringFails ==
  (last_run.o.kind = "exit" /\ last_run.o.code = 0 /\ FatalLine(last_run.o.message)) =>
    /\ last_run.class = FAIL
    /\ LastReport = TestCaseReport("t1.sh", FAIL)
    /\ Counters = CountersOf(FAIL)
    /\ suite_fail_flag

\* The script has EXPECTED_RETURN -1 and ERROR -1, the value the fatal string
\* puts in the place of the status 0: FAIL.
C6_Witness ==
  /\ last_run.o.kind = "exit"
  /\ last_run.o.code = 0
  /\ FatalLine(last_run.o.message)
  /\ scripts[1]["EXPECTED_RETURN"] = 0 - 1
  /\ scripts[1]["ERROR"] = 0 - 1
  /\ last_run.ret = 0 - 1
  /\ last_run.class = FAIL
  /\ failed = 1

(***************************************************************************)
(* Properties of BaseScan (SpecScan).                                      *)
(***************************************************************************)
\* The suite files a line of the suite file p names.
SuiteEdges(p) == {l.path : l \in fs.lines[p]} \cap SuiteNames
RECURSIVE ReachableFrom(_, _)
ReachableFrom(S, n) ==
  IF n = 0 THEN S ELSE ReachableFrom(S \cup UNION {SuiteEdges(p) : p \in S}, n - 1)
\* p includes or excludes itself, directly or through other suite files.
OnCycle(p) == p \in ReachableFrom(SuiteEdges(p), Cardinality(SuiteNames))
LoopFound == {"include loop", "exclude loop"}

\* C7: BaseScan of a suite file that includes or excludes itself, directly or
\* through other suite files, by any mix of include and exclude lines, ends
\* with the loop error and returns no list, and _ReadSuiteFiles is never
\* nested deeper than one activation for the suite and one for each suite
\* file in each of the two visited sets.
C7_LoopIsRaised ==
  /\ Len(scan_stack) <= 1 + 2 * Len(ScanSuites)
  /\ Len(scan_stack) <= 1 + Cardinality(including_suite_visited_set)
                          + Cardinality(excluding_suite_visited_set)
  /\ \A i \in DOMAIN scan_log :
       OnCycle(scan_log[i].name) =>
         /\ scan_log[i].outcome.kind = "ScanScriptsError"
         /\ scan_log[i].outcome.why \in LoopFound

\* The first BaseScan of the instance was of a suite that excludes a suite
\* that includes it, and ended with the loop error.
C7_Witness ==
  /\ Len(scan_log) = 1
  /\ scan_log[1].name = "a.suite"
  /\ fs.lines["a.suite"] = {Line(TRUE, "b.suite")}
  /\ fs.lines["b.suite"] = {Line(FALSE, "a.suite")}
  /\ scan_log[1].outcome.kind = "ScanScriptsError"
  /\ scan_log[1].outcome.why \in LoopFound

\* C8: two BaseScan calls of one instance for the same name end the same way,
\* with the same set of scripts or the same error: what an earlier call has
\* visited makes no loop error in a later one.
C8_SameOutcomeEachCall ==
  \A i, j \in DOMAIN scan_log :
    scan_log[i].name = scan_log[j].name =>
      /\ scan_log[i].outcome.kind = scan_log[j].outcome.kind
      /\ Range(scan_log[i].outcome.list) = Range(scan_log[j].outcome.list)

(***************************************************************************)
(* Properties of the errors that end a name, a script or a run (Spec).     *)
(***************************************************************************)
\* C11: when BaseScan of a name ends by an error of the directives of a
\* script or suite file (a value that is no integer or no boolean, a start
\* marker without an end marker), no exception leaves Run for it.
C11_ParseErrorStaysInRun ==
  (\E i \in DOMAIN scan_log : scan_log[i].outcome.why = "directive") =>
    run_result.kind \notin {"raising", "raised"}

\* C12: a teardown script that is not PASS is counted in the counter of its
\* class as any script is and ends nothing: the loop goes on with the next
\* script, the suite's end with the next teardown name also when the suite
\* failed, and after the last teardown name _Run writes the summary and
\* calls EndTest.
C12_TeardownNeverAborts ==
  [][/\ (exec_log' # exec_log /\ phase = "teardown" /\ last_run'.class \in NonPass) =>
          /\ Counters' = [i \in 1..5 |-> Counters[i] + CountersOf(last_run'.class)[i]]
          /\ pc' = "scripts"
          /\ script_idx' = script_idx + 1
          /\ run_result' = run_result
     /\ (pc = "scripts" /\ phase = "teardown" /\ script_idx > Len(scripts)
         /\ pc' # "scripts") =>
          /\ pc' = "names"
          /\ name_idx' = name_idx + 1
          /\ phase' = phase
     /\ (pc = "names" /\ phase = "teardown" /\ pc' = "finally") =>
          /\ name_idx > Len(TEARDOWN_SUITE)
          /\ reporter' = reporter \o <<SummaryToLog, EndTest>>
          /\ run_result' = run_result
    ]_vars

\* A run whose only script that is not PASS is the teardown script: the
\* teardown names after it were scanned, the summary and EndTest came, and
\* Run returned 1.
C12_Witness ==
  /\ pc = "done"
  /\ run_result.kind = "returned"
  /\ run_result.value = 1
  /\ failed = 1
  /\ exec_log[Len(exec_log)].phase = "teardown"
  /\ exec_log[Len(exec_log)].class = FAIL
  /\ scan_log[Len(scan_log)].name = "TEARDOWN.suite"
  /\ reporter[Len(reporter) - 1] = SummaryToLog
  /\ reporter[Len(reporter)] = EndTest

\* C13: when Run has ended, by its return or by an exception of _Run, Send
\* was called once if email_flag is set and failed+timeout+error+notrun is
\* not 0, and was not called otherwise; it is never called before the end.
C13_MailOnceIfRed ==
  /\ pc # "done" => mail_sent = 0
  /\ pc = "done" =>
       mail_sent = IF email_flag /\ (failed + timeout + error + notrun) # 0
                     THEN 1 ELSE 0
  /\ (pc = "done" /\ \A i \in Executed : exec_log[i].class \in {PASS, "none"}) =>
       mail_sent = 0

\* An exception has left Run after a script that failed, and the mail was
\* sent.
C13_Witness ==
  /\ pc = "done"
  /\ run_result.kind = "raised"
  /\ email_flag
  /\ failed = 1
  /\ mail_sent = 1

(***************************************************************************)
(* Properties of the process runner (SpecProc).                            *)
(***************************************************************************)
TimedOut == proc_pc = "returned" /\ proc_result.ret = None
Left == proc_pc \in {"returned", "raised"}
Whole(c) == [i \in 1..c.chunks |-> i]
\* The command needs chunks + 1 steps and makes one each second it is not held up.
ExitsWithin(c, t) == ~c.hangs /\ t >= c.chunks + 1

\* C14: when RunCommandToLoggerWithTimeout returns with the timeout outcome (None), no
\* process of the command's subtree, the shell or a descendant it started, is running.
C14_TimeoutLeavesNoProcess == TimedOut => alive = {}

\* C15: on every way out of the runner (return, timeout, keyboard interrupt, I/O error
\* while reading the pipe, failed start) no process of the command is still running.
C15_NoChildOutlivesCall == Left => alive = {}

\* C18: a command that writes more than the pipe holds and exits within its timeout is
\* never held up for good: the runner leaves, and when it returns it returns the
\* command's own exit code and all the chunks the command wrote, in order.
C18_LargeOutputNoDeadlock ==
  /\ [](  (proc_pc = "returned" /\ command.chunks > PipeCap
             /\ ExitsWithin(command, time_out))
          => /\ proc_result.ret = command.code
             /\ proc_result.output = Whole(command)
             /\ pipe = <<>>)
  /\ (   (proc_pc = "while" /\ command.chunks > PipeCap /\ ExitsWithin(command, time_out))
      ~> (proc_pc = "raised" \/ (proc_pc = "returned" /\ proc_result.ret = command.code)))
C18_Witness ==
  /\ proc_pc = "returned"
  /\ command.chunks = MaxChunks
  /\ command.chunks > PipeCap
  /\ ~command.hangs
  /\ command.code = 1
  /\ proc_result.ret = 1
  /\ proc_result.output = Whole(command)
  /\ start_time >= 2

(***************************************************************************)
(* Properties of one script's execution in the engine (Spec).              *)
(***************************************************************************)
\* C16: whichever way _CommandStreamer ends (return, timeout, exception of the runner,
\* keyboard interrupt), the working directory after it is the one before it, also when
\* the command ran in the directory of its script.
C16_WorkingDirectoryRestored ==
  [][exec_log' # exec_log =>
       /\ cwd' = cwd
       /\ last_run'.dir = ScriptDir(last_run'.cmd)]_vars
C16_Witness ==
  /\ pc = "done"
  /\ last_run.o.kind = "interrupt"
  /\ last_run.dir = SourceDir
  /\ last_run.dir # cwd
  /\ cwd = "/home"
  /\ Len(exec_log) = 3
  /\ exec_log[1].class = TIMEOUT
  /\ exec_log[2].class = ERROR

\* C17: one keyboard interrupt while a script runs is caught: the script is recorded
\* as ERROR and the run goes on with the next script.
C17_InterruptIsError ==
  last_run.o.kind = "interrupt" =>
    /\ last_run.class = ERROR
    /\ run_result.kind \notin {"raising", "raised"}

(***************************************************************************)
(* Properties of what BaseScan returns for a suite file (SpecScan, Spec).  *)
(***************************************************************************)
\* The scripts a suite file stands for, from its lines alone: its own scripts and those
\* of the suites it includes, less those of the suites it excludes.
RECURSIVE Resolution(_, _)
Resolution(p, depth) ==
  IF depth = 0 THEN {}
  ELSE LET own == {l.path : l \in {k \in fs.lines[p] : ~k.exclude}} \ SuiteNames
           less == {l.path : l \in {k \in fs.lines[p] : k.exclude}} \ SuiteNames
           included == {l.path : l \in {k \in fs.lines[p] : ~k.exclude}} \cap SuiteNames
           excluded == {l.path : l \in {k \in fs.lines[p] : k.exclude}} \cap SuiteNames
       IN ((own \ less) \cup UNION {Resolution(q, depth - 1) : q \in included \ excluded})
            \ UNION {Resolution(q, depth - 1) : q \in excluded}
ExcludedSuites(p) == {l.path : l \in {k \in fs.lines[p] : k.exclude}} \cap SuiteNames
ScriptsOf(config_list) == {config_list[i]["TEST_SCRIPT"] : i \in DOMAIN config_list}

\* C19: the scripts BaseScan returns for a suite file S hold no script of the resolution
\* of a suite that S excludes, whether S named the script itself or a suite S includes
\* contributed it.
C19_ExcludedSuiteScriptsAbsent ==
  \A i \in DOMAIN scan_log :
    scan_log[i].outcome.kind = "list" =>
      \A x \in ExcludedSuites(scan_log[i].name) :
        Resolution(x, Len(ScanSuites)) \cap ScriptsOf(scan_log[i].outcome.list) = {}
C19_Witness ==
  /\ Len(scan_log) = 1
  /\ scan_log[1].name = "a.suite"
  /\ fs = ScanFs(LinesOf(SharedScriptLines))
  /\ "t1.sh" \in Resolution("c.suite", Len(ScanSuites))
  /\ "t1.sh" \in Resolution("b.suite", Len(ScanSuites))
  /\ scan_log[1].outcome.kind = "list"
  /\ ScriptsOf(scan_log[1].outcome.list) = {"t2.sh"}

\* What the file of a script says for a key, or the default.
OwnValue(script, k) ==
  IF k \in DOMAIN Block(script).kv THEN Block(script).kv[k] ELSE Default[k]
\* The scripts a name stands for: those below a directory, the script, or the
\* resolution of the suite file.
Stands(name) ==
  IF CheckDir(name) THEN Walk(name)
  ELSE IF splitext(name) \in SUITE_SUFFIXES THEN Resolution(name, Cardinality(SuiteNames))
  ELSE {name}

\* C20: each run configuration BaseScan returns has TEST_SCRIPT equal to the path of
\* its own script, one configuration for each script the name stands for; for a suite
\* file, every other key the suite file has a directive for has the suite file's value,
\* and every key it has none for has the script's own directive or the default;
\* a TEST_SCRIPT directive in the script or in the suite file changes nothing.
C20_TestScriptIsOwnPath ==
  \A i \in DOMAIN scan_log :
    scan_log[i].outcome.kind = "list" =>
      LET name == scan_log[i].name
          list == scan_log[i].outcome.list
          top == IF splitext(name) \in SUITE_SUFFIXES /\ ~CheckDir(name)
                   THEN Block(name).kv ELSE <<>>
      IN /\ ScriptsOf(list) = Stands(name)
         /\ Cardinality(ScriptsOf(list)) = Len(list)
         /\ \A j \in DOMAIN list :
              /\ list[j]["TEST_SCRIPT"] \in fs.files
              /\ list[j]["TEST_SCRIPT"] # name \/ splitext(name) \notin SUITE_SUFFIXES
              /\ \A k \in DOMAIN list[j] \ {"TEST_SCRIPT"} :
                   list[j][k] = IF k \in DOMAIN top THEN top[k]
                                ELSE OwnValue(list[j]["TEST_SCRIPT"], k)
C20_Witness ==
  /\ fs = FsSuite
  /\ Block("SETUP.suite").kv["TEST_SCRIPT"] = "t2.sh"
  /\ Block("s2.sh").kv["TEST_SCRIPT"] = "t2.sh"
  /\ \E i \in DOMAIN scan_log :
       /\ scan_log[i].name = "SETUP.suite"
       /\ scan_log[i].outcome.kind = "list"
       /\ Len(scan_log[i].outcome.list) = 2
       /\ \E j \in 1..2 :
            LET c == scan_log[i].outcome.list[j]
            IN /\ c["TEST_SCRIPT"] = "s2.sh"
               /\ c["TIMEOUT"] = 10
               /\ OwnValue("s2.sh", "TIMEOUT") = 5
               /\ c["EXPECTED_RETURN"] = 1
               /\ c["ERROR"] = DefaultError

(***************************************************************************)
(* Properties of the output of one script (SpecScript).                    *)
(***************************************************************************)
Ran == last_run.o.kind \in {"exit", "timeout"}
Caught(line) == \E k \in 1..Len(CATCHING_LIST) : Search(CATCHING_LIST[k], line)
ExtraMessages == {i \in DOMAIN reporter : reporter[i].ev = "ExtraMessage"}

\* C21: a script with a line of output that holds a configured fatal string is never
\* classified PASS, whatever its exit status and its EXPECTED_RETURN.
C21_FatalLineNeverPass ==
  (Ran /\ FatalLine(last_run.o.message)) => last_run.class # PASS

\* C22: each line of output that fatal, error or warn matches gives one ExtraMessage,
\* whatever the exit status, and where no line holds a configured fatal string the class
\* of the script is that of its status.
C22_CaughtLinesAnnotated ==
  Ran =>
    /\ Cardinality(ExtraMessages)
         = Cardinality({i \in DOMAIN last_run.o.message : Caught(last_run.o.message[i])})
    /\ ~FatalLine(last_run.o.message) =>
         last_run.class = Classify(scripts[1], RunCommandRet(last_run.o))

(***************************************************************************)
(* Properties of the names and scripts a run gets to (Spec).               *)
(***************************************************************************)
\* The user's names have their turn: setup is skipped or all its scripts passed.
MainReached == skip_setup \/ \A i \in Executed : exec_log[i].phase = "setup" =>
                                                     exec_log[i].class = PASS
ScansBefore == IF skip_setup THEN 0 ELSE Len(SETUP_SUITE)
ExecutedOf(p, k) == {i \in Executed : exec_log[i].phase = p /\ exec_log[i].name_idx = k}

\* C23: in a run that returns and gets to the user's names, BaseScan is called for each
\* of the user's names in turn, and each name that resolves has all its scripts
\* executed, whatever the scripts of earlier names did and whatever the name is.
C23_EveryUserNameRuns ==
  (pc = "done" /\ run_result.kind = "returned" /\ MainReached) =>
    \A k \in 1..Len(suite_list) :
      /\ ScansBefore + k <= Len(scan_log)
      /\ scan_log[ScansBefore + k].name = suite_list[k]
      /\ scan_log[ScansBefore + k].outcome.kind = "list" =>
           Cardinality(ExecutedOf("main", k)) = Len(scan_log[ScansBefore + k].outcome.list)

\* C24: once a setup script is classified other than PASS no script is executed any
\* more, of the same setup suite, of a later setup name or of any other name.
C24_SetupFailureStopsAtOnce ==
  \A i \in Executed :
    (~skip_setup /\ exec_log[i].phase = "setup" /\ exec_log[i].class \in NonPass) =>
      i = Len(exec_log)

(***************************************************************************)
(* Properties of the polling loop of the process runner (SpecProc).        *)
(***************************************************************************)
\* C25: the runner sleeps at most timeout times, never for a timeout of 0 or less;
\* it returns None exactly when the command has not exited at the test after the loop,
\* and else the exit status of the command with all its output, the last read included.
C25_AtMostTimeoutTicks ==
  /\ start_time <= (IF time_out > 0 THEN time_out ELSE 0)
  /\ proc_pc = "returned" =>
       /\ (proc_result.ret = None) <=> (returncode = None)
       /\ returncode # None =>
            /\ proc_result.ret = command.code
            /\ proc_result.output = Whole(command)
            /\ pipe = <<>>
       /\ returncode = None => "shell" \notin alive
\* The command exited during the last second the timeout allows.
C25_Witness ==
  /\ proc_pc = "returned"
  /\ time_out = 3
  /\ start_time = time_out
  /\ command.chunks = 2
  /\ command.code = 1
  /\ proc_result.ret = 1
  /\ proc_result.output = <<1, 2>>

(***************************************************************************)
(* Properties of the visited lists of one resolution (SpecScan).           *)
(***************************************************************************)
NoDuplicate(seq) == \A i, j \in DOMAIN seq : i # j => seq[i] # seq[j]
IncludedBy(p) ==
  ReadOneSuiteFile(p).include_suite_set \ ReadOneSuiteFile(p).exclude_suite_set
ExcludedBy(p) == ReadOneSuiteFile(p).exclude_suite_set
RECURSIVE Sum(_, _)
Sum(f, S) == IF S = {} THEN 0
             ELSE LET x == CHOOSE y \in S : TRUE IN f[x] + Sum(f, S \ {x})
\* How often an include line leads to target when the lines are followed from p on,
\* through included and through excluded suites, to the given depth.
RECURSIVE IncludeEntries(_, _, _)
IncludeEntries(p, target, depth) ==
  IF depth = 0 THEN 0
  ELSE Sum([q \in IncludedBy(p) |->
              (IF q = target THEN 1 ELSE 0) + IncludeEntries(q, target, depth - 1)],
           IncludedBy(p))
       + Sum([q \in ExcludedBy(p) |-> IncludeEntries(q, target, depth - 1)], ExcludedBy(p))
\* Include lines lead to some suite file twice, the suite asked for counted once.
IncludedTwice(name) ==
  \E t \in SuiteNames :
    IncludeEntries(name, t, Len(ScanSuites) + 1) + (IF t = name THEN 1 ELSE 0) >= 2

\* C26: in one BaseScan no suite file is in the include-visited list twice nor in the
\* exclude-visited list twice; a suite file is read for an include line only when it is
\* not in the include-visited set and is put there first, and the same for an exclude
\* line and the exclude-visited set; where include lines lead to a suite file twice,
\* loop or not, BaseScan raises ScanScriptsError and returns no list.
C26_NoSuiteEnteredTwice ==
  /\ [](/\ NoDuplicate(including_suite_visited)
        /\ NoDuplicate(excluding_suite_visited)
        /\ \A i \in DOMAIN scan_log :
             (splitext(scan_log[i].name) \in SUITE_SUFFIXES
              /\ IncludedTwice(scan_log[i].name)) =>
                scan_log[i].outcome.kind = "ScanScriptsError")
  /\ [][(scan_stack # <<>> /\ Len(scan_stack') = Len(scan_stack) + 1) =>
          LET entered == scan_stack'[Len(scan_stack')].full_path
              kind == scan_stack'[Len(scan_stack)].waiting
          IN /\ kind \in {"include", "exclude"}
             /\ kind = "include" =>
                  /\ entered \notin including_suite_visited_set
                  /\ including_suite_visited' = Append(including_suite_visited, entered)
                  /\ entered \in including_suite_visited_set'
             /\ kind = "exclude" =>
                  /\ entered \notin excluding_suite_visited_set
                  /\ excluding_suite_visited' = Append(excluding_suite_visited, entered)
                  /\ entered \in excluding_suite_visited_set']_vars
\* The first BaseScan of a.suite, which includes b.suite and c.suite, which both
\* include x.suite, has ended with the include loop error.
C26_Witness ==
  /\ fs = DiamondFs
  /\ Len(scan_log) = 1
  /\ scan_log[1].name = "a.suite"
  /\ scan_log[1].outcome.kind = "ScanScriptsError"
  /\ scan_log[1].outcome.why = "include loop"
  /\ Len(including_suite_visited) = 4
  /\ including_suite_visited[1] = "a.suite"
  /\ including_suite_visited[3] = "x.suite"

(***************************************************************************)
(* Properties of the reporter's events of a run (Spec).                    *)
(***************************************************************************)
ReportsOf(class) ==
  {i \in DOMAIN reporter : reporter[i].ev = "TestCaseReport" /\ reporter[i].result = class}
Reports == {i \in DOMAIN reporter : reporter[i].ev = "TestCaseReport"}

\* C27: each script that was started has one TestCaseReport and one counter one more,
\* however its execution ended, a keyboard interrupt included: the reports are as many
\* as the scripts started, and each counter is the number of reports of its class.
C27_OneReportEachScript ==
  /\ Cardinality(Reports) = Len(exec_log)
  /\ passed + failed + timeout + error = Len(exec_log)
  /\ passed = Cardinality(ReportsOf(PASS))
  /\ failed = Cardinality(ReportsOf(FAIL))
  /\ timeout = Cardinality(ReportsOf(TIMEOUT))
  /\ error = Cardinality(ReportsOf(ERROR))

(***************************************************************************)
(* Properties of the exclude lines that name scripts (SpecScan).           *)
(***************************************************************************)
\* C28: the scripts BaseScan returns for a suite file S hold no script that an exclude
\* line of S names, also when a suite file that S includes lists the script.
C28_ExcludedScriptAbsent ==
  \A i \in DOMAIN scan_log :
    (scan_log[i].outcome.kind = "list" /\ splitext(scan_log[i].name) \in SUITE_SUFFIXES) =>
      ReadOneSuiteFile(scan_log[i].name).exclude_testcase_set
        \cap ScriptsOf(scan_log[i].outcome.list) = {}

(***************************************************************************)
(* Properties of the first and the last event of a run (Spec).             *)
(***************************************************************************)
EventsOf(ev) == {i \in DOMAIN reporter : reporter[i].ev = ev}

\* C29: when Run has returned, StartTest is the first event of the reporter and the only
\* StartTest, EndTest is the last event and the only EndTest, also when a setup
\* failure ended the run.
C29_StartFirstEndLast ==
  run_result.kind = "returned" =>
    /\ EventsOf("StartTest") = {1}
    /\ EventsOf("EndTest") = {Len(reporter)}

(***************************************************************************)
(* Properties of the resolution of a name inside a run (Spec).             *)
(***************************************************************************)
\* C30: BaseScan of a name has ended before a script of the name is started: a script
\* is started only from the list BaseScan returned for the name in turn; while BaseScan
\* is at work and when it has raised, no script is started, nothing is reported and no
\* counter changes, and after an error no script of the name is ever started.
C30_ResolutionBeforeExecution ==
  /\ [][
         /\ (exec_log' # exec_log) =>
              (/\ pc = "scripts"
               /\ scan_stack = <<>>
               /\ scan_result.kind = "list"
               /\ scripts = scan_result.list
               /\ scan_name = Names(phase)[name_idx])
         /\ (pc = "scan" \/ pc' = "scan") =>
              (UNCHANGED <<reporter, passed, failed, timeout, error, notrun, exec_log>>)
         /\ (pc = "scan" /\ pc' # "scan" /\ scan_result.kind # "list") =>
              (/\ pc' \in {"names", "finally"}
               /\ (pc' = "names") => (name_idx' = name_idx + 1 /\ phase' = phase)
               /\ (pc' = "finally") => (run_result'.kind = "raising")
               /\ ExecutedOf(phase, name_idx) = {})]_vars
  /\ [](\A i \in Executed :
          exec_log[i].phase = phase =>
            \/ exec_log[i].name_idx < name_idx
            \/ exec_log[i].name_idx = name_idx /\ pc \in {"scripts", "finally", "done"})
\* The user's second name, bad.suite, could not be resolved: the only script started
\* is that of the first name and the last event is the SuiteReport of the first name.
C30_Witness ==
  /\ pc = "names"
  /\ phase = "main"
  /\ skip_setup
  /\ name_idx = 3
  /\ suite_list = <<"a.suite", "bad.suite">>
  /\ Len(scan_log) = 2
  /\ scan_log[2].name = "bad.suite"
  /\ scan_log[2].outcome.kind = "ScanScriptsError"
  /\ Len(exec_log) = 1
  /\ ExecutedOf("main", 2) = {}
  /\ LastReport = SuiteReport("a.suite", PASS)
  /\ passed = 1
  /\ passed + failed + timeout + error + notrun = 1
====
